---- MODULE Spec2Model ----
(***************************************************************************)
(* A model of base_rest/restapi.py (the route decorator, BinaryData and    *)
(* CerberusValidator) and of base_rest_auth_api_key's                      *)
(* RestMethodSecurityPlugin.                                               *)
(*                                                                         *)
(* Python objects that the code may alias (the caller's path and verb      *)
(* lists, the parameter dicts of to_openapi_query_parameters) live in a    *)
(* heap and are referred to by identity; everything else is a value.       *)
(* Python's None is the string "None".                                     *)
(***************************************************************************)
EXTENDS Integers, Sequences, FiniteSets, TLC

VARIABLES
    lists,      \* heap: the caller's list objects, by identity
    wrapper,    \* the last response_wrap built: its routing and original_func
    call,       \* the arguments of the last decoration and the heap before it
    spec,       \* the APISpec the security plugin is attached to
    operations, \* the operations mapping last handed to operation_helper
    helper,     \* the last operation_helper call: its arguments and outcome
    binary,     \* a BinaryData object: _mediatypes and _required
    bcall,      \* the last call on the BinaryData object and its result
    cv,         \* a CerberusValidator object: _schema and _is_list
    provider,   \* the cerberus.validator component: what its handlers return
    vcall       \* the last call on the CerberusValidator object and its result

decoVars == <<lists, wrapper, call>>
pluginVars == <<spec, operations, helper>>
binaryVars == <<binary, bcall>>
validatorVars == <<cv, provider, vcall>>
vars == <<lists, wrapper, call, spec, operations, helper, binary, bcall,
          cv, provider, vcall>>

----------------------------------------------------------------------------
(* The state of each component before it is used *)

\* A value that may be None.
None == [isNone |-> TRUE, v |-> <<>>]
Some(x) == [isNone |-> FALSE, v |-> x]

NoWrapper == [routing |-> <<>>, original_func |-> "None"]
NoCall == [routes |-> <<>>, kw |-> <<>>, f |-> "None", lists |-> <<>>]

DecoIdle ==
    /\ lists = [i \in {"P", "V"} |-> <<>>]
    /\ wrapper = NoWrapper
    /\ call = NoCall

NoSpec == [inited |-> FALSE, params |-> <<>>, security_schemes |-> <<>>]
NoHelper == [called |-> FALSE, kwargs |-> <<>>, operations |-> None,
             deferred |-> FALSE, outcome |-> "None"]

PluginIdle ==
    /\ spec = NoSpec
    /\ operations = None
    /\ helper = NoHelper

NoBinary == [mediatypes |-> <<>>, required |-> FALSE]
NoPayload == [kind |-> "None", data |-> <<>>, headers |-> <<>>]
NoBCall == [op |-> "None", arg |-> NoPayload, result |-> NoPayload]

BinaryIdle ==
    /\ binary = NoBinary
    /\ bcall = NoBCall

\* A Python value given as a schema: a rule mapping, a cerberus Validator, the
\* name of a provider method, or None.
PyDict(s) == [k |-> "dict", name |-> "", schema |-> s,
              purge_unknown |-> FALSE, allow_unknown |-> FALSE]
PyValidator(s, purge, allow) == [k |-> "Validator", name |-> "", schema |-> s,
                                 purge_unknown |-> purge, allow_unknown |-> allow]
PyStr(n) == [k |-> "str", name |-> n, schema |-> <<>>,
             purge_unknown |-> FALSE, allow_unknown |-> FALSE]
PyNone == [k |-> "None", name |-> "", schema |-> <<>>,
           purge_unknown |-> FALSE, allow_unknown |-> FALSE]

NoVCall == [op |-> "None", arg |-> <<>>, outcome |-> "None", value |-> <<>>,
            errors |-> <<>>, parameters |-> <<>>, body |-> <<>>, log |-> <<>>,
            resolved |-> PyNone]

ValidatorIdle ==
    /\ cv = [schema |-> PyNone, is_list |-> FALSE]
    /\ provider = <<>>
    /\ vcall = NoVCall

----------------------------------------------------------------------------
(* Helpers *)

Range(s) == {s[i] : i \in 1..Len(s)}

RECURSIVE SeqSum(_)
SeqSum(s) == IF s = <<>> THEN 0 ELSE Head(s) + SeqSum(Tail(s))

Count(s, x) == Cardinality({i \in 1..Len(s) : s[i] = x})

\* Python truthiness of a keyword value: None and the empty string are falsy.
Truthy(v) == v \notin {"None", ""}

\* dict.get(key) on a dict modelled as a function: None when the key is absent.
kw_get(kw, key) == IF key \in DOMAIN kw THEN kw[key] ELSE "None"

----------------------------------------------------------------------------
(* RestMethodSecurityPlugin *)

\* Python truthiness of an optional dict: None and {} are falsy.
Falsy(o) == o.isNone \/ DOMAIN o.v = {}

HttpMethods == {"get", "post"}
\* An operation's params: a dict that may hold a security list. The requirement
\* {'api_key': []} is written "api_key".
ParamsChoices == {<<>>} \cup
    {[x \in {"security"} |-> sec] : sec \in {<<>>, <<"oauth">>, <<"api_key">>}}
OperationsChoices ==
    {None} \cup
    {Some(o) : o \in UNION {[ms -> ParamsChoices] : ms \in SUBSET HttpMethods}}
RoutingChoices ==
    {None, Some(<<>>), Some([x \in {"cors"} |-> "*"])} \cup
    {Some([x \in {"auth"} |-> a]) : a \in {"api_key", "public"}}
KwargsChoices == {<<>>} \cup {[x \in {"routing"} |-> r] : r \in RoutingChoices}
SpecParamsChoices ==
    {<<>>} \cup {[x \in {"default_auth"} |-> a] : a \in {"api_key", "public"}}
\* BasePlugin.operation_helper belongs to apispec, not to this repository: it
\* raises PluginMethodNotImplementedError or returns, depending on the library.
BaseOutcomes == {"PluginMethodNotImplementedError", "returned"}

\* init_spec: keeps the spec and registers the api_key security scheme.
init_spec(params) ==
    [inited |-> TRUE,
     params |-> params,
     security_schemes |->
        [x \in {"api_key"} |-> [type |-> "apiKey", in |-> "header", name |-> "API-KEY"]]]

\* Variant: the spec-wide default_auth is not consulted.
auth_NoDefault(routing, params) == kw_get(routing, "auth")

\* routing.get("auth", self.spec._params.get("default_auth"))
auth_of(routing, params) ==
    IF "auth" \in DOMAIN routing THEN routing["auth"]
    ELSE kw_get(params, "default_auth")

\* params.setdefault("security", []).append({"api_key": []})
AddSecurity(params) ==
    [x \in {"security"} |->
        Append(IF "security" \in DOMAIN params THEN params["security"] ELSE <<>>,
               "api_key")]

\* operation_helper(path, operations, **kwargs): the operations afterwards, how
\* the call ended, and whether the base helper was called.
operation_helper(ops, kwargs, base) ==
    LET routing == IF "routing" \in DOMAIN kwargs THEN kwargs["routing"] ELSE None
        deferred == Falsy(routing)
        done(outcome, o) == [operations |-> o, outcome |-> outcome, deferred |-> deferred]
    IN IF deferred /\ base # "returned" THEN done(base, ops)
       ELSE IF Falsy(ops) THEN done("returned", ops)
       ELSE IF routing.isNone THEN done("AttributeError", ops)
       ELSE IF auth_of(routing.v, spec.params) = "api_key"
            THEN done("returned",
                      Some([m \in DOMAIN ops.v |-> AddSecurity(ops.v[m])]))
            ELSE done("returned", ops)

PluginInit ==
    /\ ValidatorIdle
    /\ DecoIdle
    /\ BinaryIdle
    /\ PluginIdle

\* The APISpec is built with its plugins: it calls init_spec on each, once.
InitSpec ==
    /\ ~spec.inited
    /\ \E params \in SpecParamsChoices : spec' = init_spec(params)
    /\ UNCHANGED <<operations, helper, decoVars, binaryVars, validatorVars>>

\* APISpec.path calls operation_helper on each plugin.
OperationHelper ==
    /\ spec.inited
    /\ \E ops \in OperationsChoices, kwargs \in KwargsChoices, base \in BaseOutcomes :
          LET r == operation_helper(ops, kwargs, base)
          IN /\ operations' = r.operations
             /\ helper' = [called |-> TRUE, kwargs |-> kwargs, operations |-> ops,
                           deferred |-> r.deferred, outcome |-> r.outcome]
    /\ UNCHANGED <<spec, decoVars, binaryVars, validatorVars>>

PluginNext == InitSpec \/ OperationHelper
PluginSpec == PluginInit /\ [][PluginNext]_vars

(* Properties of the plugin *)

GivenRouting == IF "routing" \in DOMAIN helper.kwargs THEN helper.kwargs["routing"] ELSE None
NonEmptyOperations == ~helper.operations.isNone /\ DOMAIN helper.operations.v # {}
EffectiveAuth ==
    IF "auth" \in DOMAIN GivenRouting.v THEN GivenRouting.v["auth"]
    ELSE IF "default_auth" \in DOMAIN spec.params THEN spec.params["default_auth"]
    ELSE "None"
HasApiKey(params) ==
    "security" \in DOMAIN params /\ "api_key" \in Range(params["security"])

\* C2: with routing metadata and a non-empty operations mapping, every operation
\* ends with a security list holding the api_key requirement when the effective
\* auth (routing's, else the spec's default_auth) is api_key, and the operations
\* are left as they were for any other auth.
C2_ApiKeySecurity ==
    (helper.called /\ ~Falsy(GivenRouting) /\ NonEmptyOperations) =>
        /\ helper.outcome = "returned"
        /\ IF EffectiveAuth = "api_key"
           THEN /\ DOMAIN operations.v = DOMAIN helper.operations.v
                /\ \A m \in DOMAIN operations.v : HasApiKey(operations.v[m])
           ELSE operations = helper.operations

C2_Witness ==
    /\ helper.called /\ ~Falsy(GivenRouting)
    /\ "auth" \notin DOMAIN GivenRouting.v
    /\ EffectiveAuth = "api_key"
    /\ ~helper.operations.isNone /\ DOMAIN helper.operations.v = HttpMethods
    /\ \A m \in HttpMethods : ~HasApiKey(helper.operations.v[m])
    /\ \A m \in HttpMethods : HasApiKey(operations.v[m])

\* C3: without routing metadata (absent, None or empty) the hook defers to the
\* base operation_helper, ends without an error and adds no security entry,
\* also for a non-empty operations mapping.
C3_DefersWithoutRouting ==
    (helper.called /\ Falsy(GivenRouting) /\ NonEmptyOperations) =>
        /\ helper.deferred
        /\ helper.outcome = "returned"
        /\ operations = helper.operations

----------------------------------------------------------------------------
(* BinaryData *)

\* The longest raw payload.
MaxPayload == 5

RECURSIVE SeqsUpTo(_, _)
SeqsUpTo(S, n) ==
    IF n = 0 THEN {<<>>}
    ELSE LET shorter == SeqsUpTo(S, n - 1)
         IN shorter \cup {Append(q, x) : q \in {r \in shorter : Len(r) = n - 1}, x \in S}

Bytes(data) == [kind |-> "bytes", data |-> data, headers |-> <<>>]
Response(data, headers) == [kind |-> "Response", data |-> data, headers |-> headers]

\* What a handler may return: raw bytes, or an http.Response it built itself.
RawPayloads == {Bytes(d) : d \in SeqsUpTo({0, 255}, MaxPayload)}
BuiltResponses ==
    {Response(<<>>, <<>>), Response(<<255>>, <<<<"Content-Type", "text/csv">>>>)}
\* The mediatypes argument: one media type, or a list of them.
OneType(s) == [k |-> "str", s |-> s, l |-> <<>>]
TypeList(l) == [k |-> "list", s |-> "", l |-> l]
MediatypesArgs ==
    {OneType("*/*"), OneType("image/png")} \cup
    {TypeList(l) :
        l \in {<<>>, <<"image/png">>, <<"text/plain">>,
               <<"image/png", "text/plain">>, <<"text/plain", "image/png">>}}

\* BinaryData.__init__: a single media type becomes a one-element list.
BinaryData(mediatypes, required) ==
    [mediatypes |-> IF mediatypes.k = "list" THEN mediatypes.l ELSE <<mediatypes.s>>,
     required |-> required]

\* http.content_disposition("file"): the attachment form for that file name.
content_disposition(filename) == <<"attachment", filename>>

\* Variant: the first declared media type is used even when several are declared.
FirstMediatypeMutant(self, result) ==
    LET mediatype == IF Len(self.mediatypes) >= 1 THEN self.mediatypes[1] ELSE "*/*"
    IN Response(result.data,
                <<<<"Content-Type", mediatype>>,
                  <<"X-Content-Type-Options", "nosniff">>,
                  <<"Content-Disposition", content_disposition("file")>>,
                  <<"Content-Length", Len(result.data)>>>>)

_to_http_response(self, result) ==
    LET mediatype == IF Len(self.mediatypes) = 1 THEN self.mediatypes[1] ELSE "*/*"
    IN Response(result.data,
                <<<<"Content-Type", mediatype>>,
                  <<"X-Content-Type-Options", "nosniff">>,
                  <<"Content-Disposition", content_disposition("file")>>,
                  <<"Content-Length", Len(result.data)>>>>)

BinaryData_to_response(self, result) ==
    IF result.kind # "Response" THEN _to_http_response(self, result) ELSE result

BinaryData_from_params(self, params) == params

BinaryInit ==
    /\ ValidatorIdle
    /\ DecoIdle
    /\ PluginIdle
    /\ \E m \in MediatypesArgs, r \in BOOLEAN : binary = BinaryData(m, r)
    /\ bcall = NoBCall

BinaryToResponse ==
    /\ \E result \in RawPayloads \cup BuiltResponses :
          bcall' = [op |-> "to_response", arg |-> result,
                    result |-> BinaryData_to_response(binary, result)]
    /\ UNCHANGED <<binary, decoVars, pluginVars, validatorVars>>

BinaryFromParams ==
    /\ \E params \in RawPayloads :
          bcall' = [op |-> "from_params", arg |-> params,
                    result |-> BinaryData_from_params(binary, params)]
    /\ UNCHANGED <<binary, decoVars, pluginVars, validatorVars>>

BinaryNext == BinaryToResponse \/ BinaryFromParams
BinarySpec == BinaryInit /\ [][BinaryNext]_vars

(* Properties of BinaryData *)

\* C6: to_response returns a response object unchanged; raw bytes become a
\* response whose headers are exactly Content-Type, X-Content-Type-Options:
\* nosniff, the file Content-Disposition and Content-Length, with Content-Type the
\* declared media type when one is declared and */* when several are, and
\* Content-Length the byte length of the payload.
C6_BinaryResponse ==
    bcall.op = "to_response" =>
        IF bcall.arg.kind = "Response" THEN bcall.result = bcall.arg
        ELSE /\ bcall.result.kind = "Response"
             /\ bcall.result.data = bcall.arg.data
             /\ Len(bcall.result.headers) = 4
             /\ bcall.result.headers[1][1] = "Content-Type"
             /\ Len(binary.mediatypes) = 1 =>
                    bcall.result.headers[1][2] = binary.mediatypes[1]
             /\ Len(binary.mediatypes) > 1 => bcall.result.headers[1][2] = "*/*"
             /\ bcall.result.headers[2] = <<"X-Content-Type-Options", "nosniff">>
             /\ bcall.result.headers[3] = <<"Content-Disposition", <<"attachment", "file">>>>
             /\ bcall.result.headers[4][1] = "Content-Length"
             /\ bcall.result.headers[4][2] = Len(bcall.arg.data)

C6_Witness ==
    /\ bcall.op = "to_response"
    /\ bcall.arg.kind = "bytes" /\ Len(bcall.arg.data) = 5
    /\ binary.mediatypes = <<"image/png">>
    /\ bcall.result.headers[1] = <<"Content-Type", "image/png">>
    /\ bcall.result.headers[4] = <<"Content-Length", 5>>

----------------------------------------------------------------------------
(* CerberusValidator *)

\* dict.get(key, default)
dict_get(d, key, default) == IF key \in DOMAIN d THEN d[key] ELSE default

\* The order in which a schema's fields are iterated.
FieldOrder == <<"n", "tags">>
Values == {"i1", "sx", "l0"}
TypeOf(v) == IF v = "i1" THEN "integer" ELSE IF v = "sx" THEN "string" ELSE "list"

Rule(type, required, nullable, hasDefault, default, items) ==
    [type |-> type, required |-> required, nullable |-> nullable,
     hasDefault |-> hasDefault, default |-> default, items |-> items]
SchemaA ==
    [f \in {"n", "tags"} |->
        IF f = "n" THEN Rule("integer", TRUE, FALSE, FALSE, "None", "None")
        ELSE Rule("list", FALSE, TRUE, TRUE, "l0", "string")]
SchemaB == [f \in {"n"} |-> Rule("integer", FALSE, FALSE, TRUE, "i1", "None")]
SchemaC == [f \in {"tags"} |-> Rule("list", TRUE, FALSE, FALSE, "None", "None")]

Documents ==
    LET known == UNION {[d -> Values] : d \in SUBSET {"n", "tags"}}
    IN known \cup {doc @@ [x \in {"zz"} |-> "sx"] : doc \in known}

SchemaSources ==
    {PyDict(SchemaA), PyDict(SchemaB), PyStr("m"), PyNone} \cup
    {PyValidator(SchemaA, p, a) : p, a \in BOOLEAN}
Directions == {"input", "output"}
ProviderReturns ==
    {PyDict(SchemaA), PyDict(SchemaC), PyValidator(SchemaB, FALSE, TRUE), PyNone}

\* cerberus.Validator(schema, purge_unknown=...): unknown fields are not allowed
\* unless asked for.
Validator(schema, purge_unknown) ==
    [schema |-> schema, purge_unknown |-> purge_unknown, allow_unknown |-> FALSE]

\* Validator.validate(document): normalization (unknown fields purged, defaults
\* set), then the rules; .document and .errors afterwards.
Validate(v, doc) ==
    LET declared == DOMAIN v.schema
        purged == IF v.purge_unknown /\ ~v.allow_unknown
                  THEN [f \in DOMAIN doc \cap declared |-> doc[f]] ELSE doc
        document ==
            [f \in DOMAIN purged \cup {g \in declared : v.schema[g].hasDefault} |->
                IF f \in DOMAIN purged THEN purged[f] ELSE v.schema[f].default]
        unknown == IF v.allow_unknown THEN {} ELSE DOMAIN document \ declared
        missing == {f \in declared : v.schema[f].required /\ f \notin DOMAIN document}
        mistyped == {f \in declared \cap DOMAIN document :
                        TypeOf(document[f]) # v.schema[f].type}
    IN [ok |-> unknown \cup missing \cup mistyped = {},
        document |-> document,
        errors |-> [f \in unknown \cup missing \cup mistyped |->
                       IF f \in unknown THEN "unknown field"
                       ELSE IF f \in missing THEN "required field"
                       ELSE "must be of " \o v.schema[f].type \o " type"]]

\* get_validator_handler(service, name, direction)(): what the provider returns.
get_validator_handler(prov, name, direction) == prov[direction]

\* Variant: the validator built from a rule mapping does not purge unknown fields.
PurgeOffMutant(self, prov, direction) ==
    LET named == self.schema.k = "str"
        schema == IF named
                  THEN get_validator_handler(prov, self.schema.name, direction)
                  ELSE self.schema
        log == IF named THEN <<[name |-> self.schema.name, direction |-> direction]>>
               ELSE <<>>
    IN IF schema.k = "Validator"
       THEN [ok |-> TRUE, log |-> log, resolved |-> schema,
             validator |-> [schema |-> schema.schema,
                            purge_unknown |-> schema.purge_unknown,
                            allow_unknown |-> schema.allow_unknown]]
       ELSE IF schema.k = "dict"
       THEN [ok |-> TRUE, log |-> log, resolved |-> schema,
             validator |-> Validator(schema.schema, FALSE)]
       ELSE [ok |-> FALSE, log |-> log, resolved |-> schema,
             validator |-> Validator(<<>>, FALSE)]

\* get_cerberus_validator(service, direction): the validator, or no validator
\* (an Exception), with the provider calls made and the schema value resolved.
get_cerberus_validator(self, prov, direction) ==
    LET named == self.schema.k = "str"
        schema == IF named
                  THEN get_validator_handler(prov, self.schema.name, direction)
                  ELSE self.schema
        log == IF named THEN <<[name |-> self.schema.name, direction |-> direction]>>
               ELSE <<>>
    IN IF schema.k = "Validator"
       THEN [ok |-> TRUE, log |-> log, resolved |-> schema,
             validator |-> [schema |-> schema.schema,
                            purge_unknown |-> schema.purge_unknown,
                            allow_unknown |-> schema.allow_unknown]]
       ELSE IF schema.k = "dict"
       THEN [ok |-> TRUE, log |-> log, resolved |-> schema,
             validator |-> Validator(schema.schema, TRUE)]
       ELSE [ok |-> FALSE, log |-> log, resolved |-> schema,
             validator |-> Validator(<<>>, FALSE)]

\* How a call ended.
Outcome(op, arg, g, outcome) ==
    [op |-> op, arg |-> arg, outcome |-> outcome, value |-> <<>>, errors |-> <<>>,
     parameters |-> <<>>, body |-> <<>>, log |-> g.log, resolved |-> g.resolved]

CerberusValidator_from_params(self, prov, params) ==
    LET g == get_cerberus_validator(self, prov, "input")
        r == Validate(g.validator, params)
    IN IF ~g.ok THEN Outcome("from_params", params, g, "Exception")
       ELSE IF r.ok
       THEN [Outcome("from_params", params, g, "returned") EXCEPT !.value = r.document]
       ELSE [Outcome("from_params", params, g, "UserError") EXCEPT !.errors = r.errors]

\* Variant: an invalid result is reported as UserError.
ToResponseUserErrorMutant(self, prov, result) ==
    LET g == get_cerberus_validator(self, prov, "output")
        r == Validate(g.validator, result)
    IN IF ~g.ok THEN Outcome("to_response", result, g, "Exception")
       ELSE IF r.ok
       THEN [Outcome("to_response", result, g, "returned") EXCEPT !.value = r.document]
       ELSE [Outcome("to_response", result, g, "UserError") EXCEPT !.errors = r.errors]

CerberusValidator_to_response(self, prov, result) ==
    LET g == get_cerberus_validator(self, prov, "output")
        r == Validate(g.validator, result)
    IN IF ~g.ok THEN Outcome("to_response", result, g, "Exception")
       ELSE IF r.ok
       THEN [Outcome("to_response", result, g, "returned") EXCEPT !.value = r.document]
       ELSE [Outcome("to_response", result, g, "SystemError") EXCEPT !.errors = r.errors]

\* tools.cerberus_to_json: the JSON-Schema-like description of a rule mapping.
\* cerberus calls an array "list".
JsonType(t) == IF t = "list" THEN "array" ELSE IF t = "dict" THEN "object" ELSE t

FieldProps(rule) ==
    [x \in {"type"} |-> JsonType(rule.type)]
    @@ (IF rule.nullable THEN [x \in {"nullable"} |-> TRUE] ELSE <<>>)
    @@ (IF rule.hasDefault THEN [x \in {"default"} |-> rule.default] ELSE <<>>)
    @@ (IF rule.items # "None"
        THEN [x \in {"items"} |-> [y \in {"type"} |-> JsonType(rule.items)]]
        ELSE <<>>)

cerberus_to_json(schema) ==
    [type |-> "object",
     required |-> SelectSeq(FieldOrder, LAMBDA f : f \in DOMAIN schema /\ schema[f].required),
     properties |-> [f \in DOMAIN schema |-> FieldProps(schema[f])]]

\* to_json_schema(service, direction)
to_json_schema(self, prov, direction) ==
    LET g == get_cerberus_validator(self, prov, direction)
    IN [ok |-> g.ok, log |-> g.log, resolved |-> g.resolved,
        json |-> cerberus_to_json(g.validator.schema)]

\* Variant: a copy of the parameter dict is appended, and the original renamed.
AppendCopyMutant(st, prop, json) ==
    LET field == json.properties[prop]
        schema0 == IF "schema" \in DOMAIN field THEN field["schema"]
                   ELSE [x \in {"type"} |-> field["type"]]
        schema1 == IF "items" \in DOMAIN field
                   THEN [x \in {"items"} |-> field["items"]] @@ schema0 ELSE schema0
        schema2 == IF "enum" \in DOMAIN field
                   THEN [x \in {"enum"} |-> field["enum"]] @@ schema1 ELSE schema1
        params == [name |-> prop, in |-> "query",
                   required |-> prop \in Range(json.required),
                   allowEmptyValue |-> dict_get(field, "nullable", FALSE),
                   default |-> dict_get(field, "default", "None"),
                   schema |-> schema2]
        objs1 == st.objs \o <<params, params>>
        k == Len(objs1) - 1
    IN [objs |-> IF field["type"] = "array"
                 THEN [objs1 EXCEPT ![k].name = @ \o "[]"] ELSE objs1,
        parameters |-> Append(st.parameters, k + 1)]

\* One iteration of the loop over the properties. The parameter dict is an
\* object: the list holds a reference to it, and it is renamed after the append.
QueryParamStep(st, prop, json) ==
    LET field == json.properties[prop]
        schema0 == IF "schema" \in DOMAIN field THEN field["schema"]
                   ELSE [x \in {"type"} |-> field["type"]]
        schema1 == IF "items" \in DOMAIN field
                   THEN [x \in {"items"} |-> field["items"]] @@ schema0 ELSE schema0
        schema2 == IF "enum" \in DOMAIN field
                   THEN [x \in {"enum"} |-> field["enum"]] @@ schema1 ELSE schema1
        params == [name |-> prop, in |-> "query",
                   required |-> prop \in Range(json.required),
                   allowEmptyValue |-> dict_get(field, "nullable", FALSE),
                   default |-> dict_get(field, "default", "None"),
                   schema |-> schema2]
        objs1 == Append(st.objs, params)
        k == Len(objs1)
    IN [objs |-> IF field["type"] = "array"
                 THEN [objs1 EXCEPT ![k].name = @ \o "[]"] ELSE objs1,
        parameters |-> Append(st.parameters, k)]

RECURSIVE QueryParamLoop(_, _, _)
QueryParamLoop(st, props, json) ==
    IF props = <<>> THEN st
    ELSE QueryParamLoop(QueryParamStep(st, Head(props), json), Tail(props), json)

to_openapi_query_parameters(self, prov) ==
    LET j == to_json_schema(self, prov, "input")
        props == SelectSeq(FieldOrder, LAMBDA f : f \in DOMAIN j.json.properties)
        st == QueryParamLoop([objs |-> <<>>, parameters |-> <<>>], props, j.json)
    IN IF ~j.ok THEN Outcome("to_openapi_query_parameters", <<>>, j, "Exception")
       ELSE [Outcome("to_openapi_query_parameters", <<>>, j, "returned")
                EXCEPT !.parameters =
                    [i \in 1..Len(st.parameters) |-> st.objs[st.parameters[i]]]]

to_openapi_requestbody(self, prov) ==
    LET j == to_json_schema(self, prov, "input")
    IN IF ~j.ok THEN Outcome("to_openapi_requestbody", <<>>, j, "Exception")
       ELSE [Outcome("to_openapi_requestbody", <<>>, j, "returned")
                EXCEPT !.body =
                    [content |-> [x \in {"application/json"} |-> [schema |-> j.json]]]]

\* Variant: the responses are described from the input schema.
ResponsesInputMutant(self, prov) ==
    LET j == to_json_schema(self, prov, "input")
    IN IF ~j.ok THEN Outcome("to_openapi_responses", <<>>, j, "Exception")
       ELSE [Outcome("to_openapi_responses", <<>>, j, "returned")
                EXCEPT !.body =
                    [x \in {"200"} |->
                        [content |-> [y \in {"application/json"} |-> [schema |-> j.json]]]]]

to_openapi_responses(self, prov) ==
    LET j == to_json_schema(self, prov, "output")
    IN IF ~j.ok THEN Outcome("to_openapi_responses", <<>>, j, "Exception")
       ELSE [Outcome("to_openapi_responses", <<>>, j, "returned")
                EXCEPT !.body =
                    [x \in {"200"} |->
                        [content |-> [y \in {"application/json"} |-> [schema |-> j.json]]]]]

\* CerberusValidator.__init__
CerberusValidator(schema, is_list) == [schema |-> schema, is_list |-> is_list]

ValidatorInit ==
    /\ DecoIdle
    /\ PluginIdle
    /\ BinaryIdle
    /\ \E schema \in SchemaSources : cv = CerberusValidator(schema, FALSE)
    /\ provider \in [Directions -> ProviderReturns]
    /\ vcall = NoVCall

FromParams ==
    /\ \E params \in Documents : vcall' = CerberusValidator_from_params(cv, provider, params)
    /\ UNCHANGED <<cv, provider, decoVars, pluginVars, binaryVars>>

ToResponse ==
    /\ \E result \in Documents : vcall' = CerberusValidator_to_response(cv, provider, result)
    /\ UNCHANGED <<cv, provider, decoVars, pluginVars, binaryVars>>

ToOpenapiQueryParameters ==
    /\ vcall' = to_openapi_query_parameters(cv, provider)
    /\ UNCHANGED <<cv, provider, decoVars, pluginVars, binaryVars>>

ToOpenapiRequestbody ==
    /\ vcall' = to_openapi_requestbody(cv, provider)
    /\ UNCHANGED <<cv, provider, decoVars, pluginVars, binaryVars>>

ToOpenapiResponses ==
    /\ vcall' = to_openapi_responses(cv, provider)
    /\ UNCHANGED <<cv, provider, decoVars, pluginVars, binaryVars>>

\* The provider component is free to return something else from one call to the
\* next.
ProviderChange ==
    /\ \E d \in Directions, r \in ProviderReturns :
          /\ provider[d] # r
          /\ provider' = [provider EXCEPT ![d] = r]
    /\ UNCHANGED <<cv, vcall, decoVars, pluginVars, binaryVars>>

ValidatorNext ==
    \/ FromParams
    \/ ToResponse
    \/ ToOpenapiQueryParameters
    \/ ToOpenapiRequestbody
    \/ ToOpenapiResponses
    \/ ProviderChange
ValidatorSpec == ValidatorInit /\ [][ValidatorNext]_vars

(* Properties of CerberusValidator *)

Resolved == vcall.resolved.k \in {"dict", "Validator"}
\* The validator the last call worked with.
UsedValidator ==
    [schema |-> vcall.resolved.schema,
     purge_unknown |-> vcall.resolved.k = "dict" \/ vcall.resolved.purge_unknown,
     allow_unknown |-> vcall.resolved.k = "Validator" /\ vcall.resolved.allow_unknown]
ValidationFailed == Resolved /\ ~Validate(UsedValidator, vcall.arg).ok

\* C4: a validation failure in to_response is reported as SystemError and never
\* as UserError, one in from_params as UserError and never as SystemError.
C4_ErrorKinds ==
    /\ (vcall.op = "from_params" /\ ValidationFailed) => vcall.outcome = "UserError"
    /\ (vcall.op = "to_response" /\ ValidationFailed) => vcall.outcome = "SystemError"
    /\ vcall.outcome = "UserError" => vcall.op = "from_params"
    /\ vcall.outcome = "SystemError" => vcall.op = "to_response"

C4_Witness ==
    /\ vcall.op = "to_response"
    /\ vcall.outcome = "SystemError"
    /\ "n" \in DOMAIN vcall.errors

\* What the schema alone asks of a document: the declared fields.
FieldOk(schema, doc, f) ==
    /\ schema[f].required => (f \in DOMAIN doc \/ schema[f].hasDefault)
    /\ f \in DOMAIN doc => TypeOf(doc[f]) = schema[f].type
Satisfies(schema, doc) == \A f \in DOMAIN schema : FieldOk(schema, doc, f)
ViolatedFields(schema, doc) == {f \in DOMAIN schema : ~FieldOk(schema, doc, f)}
\* The document with the defaults applied and the unknown fields removed.
Canonical(schema, doc) ==
    [f \in (DOMAIN doc \cap DOMAIN schema) \cup {g \in DOMAIN schema : schema[g].hasDefault} |->
        IF f \in DOMAIN doc THEN doc[f] ELSE schema[f].default]
UnknownFields(schema, doc) == DOMAIN doc \ DOMAIN schema

FromParamsCanonical ==
    IF Satisfies(vcall.resolved.schema, vcall.arg)
    THEN /\ vcall.outcome = "returned"
         /\ vcall.value = Canonical(vcall.resolved.schema, vcall.arg)
    ELSE /\ vcall.outcome = "UserError"
         /\ ViolatedFields(vcall.resolved.schema, vcall.arg) \subseteq DOMAIN vcall.errors

\* C5 as stated: whatever the schema source, from_params returns the document
\* with the defaults applied and the unknown fields removed when the value
\* satisfies the schema, and fails with UserError naming every violated field
\* when it does not.
C5_AnySource ==
    (vcall.op = "from_params" /\ Resolved) => FromParamsCanonical

\* C5 amended: that holds when the schema resolves to a rule mapping (inline or
\* from the provider). A pre-built validator (given or from the provider) is
\* used as it is configured: unknown fields are removed only if it purges them,
\* kept if it allows them, and otherwise rejected with UserError; the defaults
\* are applied and every violated field is named all the same. Nothing is
\* returned that the validator did not accept.
C5_RuleMappingPurges ==
    (vcall.op = "from_params" /\ Resolved) =>
        /\ vcall.resolved.k = "dict" => FromParamsCanonical
        /\ vcall.resolved.k = "Validator" =>
             LET schema == vcall.resolved.schema
                 unknown == UnknownFields(schema, vcall.arg)
                 rejects == ~vcall.resolved.allow_unknown /\ ~vcall.resolved.purge_unknown
             IN IF Satisfies(schema, vcall.arg) /\ (unknown = {} \/ ~rejects)
                THEN /\ vcall.outcome = "returned"
                     /\ [f \in DOMAIN vcall.value \cap DOMAIN schema |-> vcall.value[f]]
                            = Canonical(schema, vcall.arg)
                     /\ UnknownFields(schema, vcall.value) =
                            IF vcall.resolved.allow_unknown THEN unknown ELSE {}
                ELSE /\ vcall.outcome = "UserError"
                     /\ ViolatedFields(schema, vcall.arg) \subseteq DOMAIN vcall.errors
                     /\ rejects => unknown \subseteq DOMAIN vcall.errors
        /\ vcall.outcome = "returned" => Validate(UsedValidator, vcall.arg).ok

C5_Witness ==
    /\ vcall.op = "from_params" /\ vcall.outcome = "returned"
    /\ cv.schema.k = "str" /\ vcall.resolved.k = "dict"
    /\ "zz" \in DOMAIN vcall.arg /\ "zz" \notin DOMAIN vcall.value
    /\ "tags" \notin DOMAIN vcall.arg /\ "tags" \in DOMAIN vcall.value

\* C7: to_openapi_query_parameters returns exactly one parameter per field of
\* the input schema, named after the field, with the suffix [] when the field
\* is an array and unchanged otherwise.
C7_ArrayNames ==
    (vcall.op = "to_openapi_query_parameters" /\ vcall.outcome = "returned") =>
        LET schema == vcall.resolved.schema
            name(f) == IF schema[f].type = "list" THEN f \o "[]" ELSE f
        IN /\ Len(vcall.parameters) = Cardinality(DOMAIN schema)
           /\ \A f \in DOMAIN schema :
                Cardinality({i \in 1..Len(vcall.parameters) :
                                vcall.parameters[i].name = name(f)}) = 1

C7_Witness ==
    /\ vcall.op = "to_openapi_query_parameters" /\ vcall.outcome = "returned"
    /\ Len(vcall.parameters) = 2
    /\ vcall.parameters[1].name = "n"
    /\ vcall.parameters[2].name = "tags[]"

DirectionOf(op) ==
    IF op \in {"from_params", "to_openapi_query_parameters", "to_openapi_requestbody"}
    THEN "input" ELSE "output"

\* C10: with a schema given by name, every call asks the provider exactly once,
\* for the call's direction, and works with what the provider returns at that
\* moment; no call changes the transformer's stored schema.
C10_FreshResolution ==
    [][/\ cv' = cv
       /\ (provider' = provider /\ cv.schema.k = "str") =>
            /\ vcall'.log = <<[name |-> cv.schema.name,
                               direction |-> DirectionOf(vcall'.op)]>>
            /\ vcall'.resolved = provider[DirectionOf(vcall'.op)]]_vars

C10_Witness ==
    /\ cv.schema.k = "str"
    /\ vcall.op = "to_openapi_responses"
    /\ vcall.log = <<[name |-> "m", direction |-> "output"]>>
    /\ provider["input"] # provider["output"]
    /\ vcall.resolved = provider["output"]

----------------------------------------------------------------------------
(* method(routes, input_param, output_param, **kw): the decorator *)

\* Bounds of the decorator's inputs.
MaxRoutes == 2

\* An argument is a plain string or a reference to one of the caller's lists.
Str(s) == [k |-> "str", s |-> s, id |-> "-"]
Ref(i) == [k |-> "list", s |-> "", id |-> i]

PathArgs == {Str("/a"), Ref("P")}
VerbArgs == {Str("GET"), Ref("V")}
Elements == [paths : PathArgs, verbs : VerbArgs]
RouteSpecs == UNION {[1..n -> Elements] : n \in 0..MaxRoutes}
KwChoices == {<<>>} \cup {[x \in {"cors"} |-> c] : c \in {"None", "", "*"}}
Handlers == {"f"}

InitialPathLists == {<<"/a">>, <<"/a", "/b">>, <<"/b", "/b">>}
InitialVerbLists == {<<>>, <<"GET">>, <<"POST", "POST">>, <<"OPTIONS">>,
                     <<"OPTIONS", "GET">>}

\* isinstance(x, list): the list object itself, else a fresh one-element list.
\* The result is (identity or "-" for a fresh list, contents).
AsList(heap, arg) ==
    IF arg.k = "list" THEN [id |-> arg.id, items |-> heap[arg.id]]
    ELSE [id |-> "-", items |-> <<arg.s>>]

\* Variant: OPTIONS is appended without looking whether it is listed.
AppendOptionsMutant(items, kw) ==
    IF Truthy(kw_get(kw, "cors")) THEN Append(items, "OPTIONS") ELSE items

\* Variant: the presence of the cors key counts, not its value.
CorsKeyMutant(items, kw) ==
    IF "cors" \in DOMAIN kw /\ "OPTIONS" \notin Range(items)
    THEN Append(items, "OPTIONS") ELSE items

\* http_methods.append("OPTIONS") when cors is set and OPTIONS is not listed.
WithCors(items, kw) ==
    IF Truthy(kw_get(kw, "cors")) /\ "OPTIONS" \notin Range(items)
    THEN Append(items, "OPTIONS") ELSE items

\* One iteration of the loop over routes: the heap and _routes after it.
LoopBody(st, elem, kw) ==
    LET hm == AsList(st.lists, elem.verbs)
        methods == WithCors(hm.items, kw)
        heap1 == IF hm.id = "-" THEN st.lists
                 ELSE [st.lists EXCEPT ![hm.id] = methods]
        paths == AsList(heap1, elem.paths).items
    IN [lists |-> heap1,
        routes |-> st.routes \o [i \in 1..Len(methods) |-> <<paths, methods[i]>>]]

RECURSIVE Loop(_, _, _)
Loop(st, routes, kw) ==
    IF routes = <<>> THEN st
    ELSE Loop(LoopBody(st, Head(routes), kw), Tail(routes), kw)

\* decorator(f): the heap afterwards and the wrapper with its metadata.
decorator(heap, routes, input_param, output_param, kw, f) ==
    LET st == Loop([lists |-> heap, routes |-> <<>>], routes, kw)
        routing == kw @@ [routes |-> st.routes,
                          input_param |-> input_param,
                          output_param |-> output_param]
    IN [lists |-> st.lists,
        wrapper |-> [routing |-> routing, original_func |-> f]]

DecoInit ==
    /\ ValidatorIdle
    /\ PluginIdle
    /\ BinaryIdle
    /\ \E p \in InitialPathLists, v \in InitialVerbLists :
          lists = [i \in {"P", "V"} |-> IF i = "P" THEN p ELSE v]
    /\ wrapper = NoWrapper
    /\ call = NoCall

Decorate ==
    \E routes \in RouteSpecs, kw \in KwChoices, f \in Handlers :
        LET r == decorator(lists, routes, "None", "None", kw, f)
        IN /\ lists' = r.lists
           /\ wrapper' = r.wrapper
           /\ call' = [routes |-> routes, kw |-> kw, f |-> f, lists |-> lists]
           /\ UNCHANGED <<pluginVars, binaryVars, validatorVars>>

DecoNext == Decorate
DecoSpec == DecoInit /\ [][DecoNext]_vars

(* Properties of the decorator *)

Decorated == call.f # "None"

\* The (path, verb) pairs a routes list describes.
PairSet(routes) ==
    UNION {{<<p, e[2]>> : p \in Range(e[1])} : e \in Range(routes)}

\* How many times routes describes the pair (p, v).
DescribedCount(routes, p, v) ==
    SeqSum([i \in 1..Len(routes) |->
               IF routes[i][2] = v THEN Count(routes[i][1], p) ELSE 0])

\* What the caller passed, read in the heap as it was before the decoration.
GivenPaths(e) == IF e.paths.k = "list" THEN call.lists[e.paths.id] ELSE <<e.paths.s>>
GivenVerbs(e) == IF e.verbs.k = "list" THEN call.lists[e.verbs.id] ELSE <<e.verbs.s>>
CorsSet == "cors" \in DOMAIN call.kw /\ call.kw["cors"] \notin {"None", ""}
NormVerbSet(e) == Range(GivenVerbs(e)) \cup (IF CorsSet THEN {"OPTIONS"} ELSE {})
NormVerbs(e) ==
    IF CorsSet /\ "OPTIONS" \notin Range(GivenVerbs(e))
    THEN GivenVerbs(e) \o <<"OPTIONS">> ELSE GivenVerbs(e)
AllPaths == {"/a", "/b"}
AllVerbs == {"GET", "POST", "OPTIONS"}

\* C1: the pairs described by routing['routes'] are exactly, for each element,
\* its normalized paths times its normalized verbs, where OPTIONS is one of the
\* verbs when cors is set, and only the caller's verbs when cors is unset or
\* falsy.
C1_CrossProduct ==
    Decorated =>
        PairSet(wrapper.routing["routes"]) =
            UNION {Range(GivenPaths(e)) \X NormVerbSet(e) : e \in Range(call.routes)}

C1_Witness ==
    /\ Decorated /\ CorsSet /\ Len(call.routes) = 2
    /\ \E e \in Range(call.routes) :
          /\ e.verbs.k = "list" /\ e.paths.k = "list"
          /\ "OPTIONS" \notin Range(GivenVerbs(e))
          /\ <<"/b", "OPTIONS">> \in PairSet(wrapper.routing["routes"])
    /\ \E e \in Range(call.routes) : e.verbs.k = "str"

\* C8: applying the decorator changes none of the caller's lists, and the
\* original callable is reachable as original_func.
C8_NoSideEffect ==
    [][lists' = lists /\ wrapper'.original_func = call'.f]_vars

====
